---- MODULE Spec2Model ----
(***************************************************************************)
(* Model of the network-aware fetch cache of src-tauri/src/lib.rs:         *)
(* the connectivity prober, the one-file-per-key local store, the fetch    *)
(* orchestrator (fetch_data_with_fallback, force_refresh_data) and the     *)
(* cache maintenance commands (clear_local_cache, get_cache_info).         *)
(*                                                                         *)
(* Every tauri command is an async task; tasks of different invocations    *)
(* run on a multi-threaded runtime, so each task is a process whose steps  *)
(* are its network awaits and its file-system calls.                       *)
(***************************************************************************)
EXTENDS Integers, Sequences, FiniteSets, TLC

\* ---------------------------------------------------------------- bounds
\* wall clock runs over 1..MaxTime (epoch seconds, positive)
MaxTime == 2
\* number of command invocations a behaviour may start
MaxCalls == 2

\* ------------------------------------------------------ program constants
\* test_urls of check_internet_connectivity
NumTestUrls == 3

\* the concurrent tasks: the caller of t1 runs any command and looks at its
\* result; t2 runs the commands that change the local store, through which
\* alone tasks interfere, and its caller drops the result
Procs == {"t1", "t2"}
AllOps == {"status", "save", "load", "fetch", "force", "clear", "list"}
StoreOps == {"save", "clear"}
Ops(p) == IF p = "t1" THEN AllOps ELSE StoreOps
Observed(p) == p = "t1"

\* keys the callers use: the empty key and "a"
Keys == { <<>>, <<"a">> }

\* ------------------------------------------------------------ JSON values
\* serde_json::Value restricted to null and small integers
JNull == [kind |-> "null", n |-> 0]
JNum(i) == [kind |-> "num", n |-> i]
JsonValues == {JNull, JNum(1)}

\* a parsed document: a scalar, or an object with scalar members
Doc(kind, n, fields) == [kind |-> kind, n |-> n, fields |-> fields]
NoFields == [x \in {} |-> JNull]

\* ---------------------------------------------------- text of a JSON file
\* the text of a file is a sequence of cells. The parts that every text the
\* program writes has at the same place are one cell each: a punctuation
\* mark, a member name, a run of whitespace of the pretty printer. A value
\* takes the cells of its spelling: null is n, u, l, l; the numbers in range
\* have one digit. File offsets count cells.
Tok(kind, s, n) == [kind |-> kind, s |-> s, n |-> n]
Ws == Tok("ws", " ", 0)
Chr(ch) == Tok("chr", ch, 0)
LBrace == Tok("punct", "{", 0)
RBrace == Tok("punct", "}", 0)
Colon == Tok("punct", ":", 0)
Comma == Tok("punct", ",", 0)
StrTok(s) == Tok("str", s, 0)
\* a value as a token of the parser, and as the cells of its spelling
ValueTok(v) == IF v.kind = "null" THEN Tok("null", "", 0) ELSE Tok("num", "", v.n)
NullText == << Chr("n"), Chr("u"), Chr("l"), Chr("l") >>
ValueText(v) == IF v.kind = "null" THEN NullText ELSE << ValueTok(v) >>
IsValueTok(t) == t.kind \in {"null", "num"}
TokValue(t) == IF t.kind = "null" THEN JNull ELSE JNum(t.n)

\* serde_json::json!({"data": .., "timestamp": ..}) + to_string_pretty:
\* members are written in key order, "data" before "timestamp"
ToStringPretty(data, timestamp) ==
    << LBrace, Ws, StrTok("data"), Colon, Ws >> \o ValueText(data)
    \o << Comma, Ws, StrTok("timestamp"), Colon, Ws >> \o ValueText(JNum(timestamp))
    \o << Ws, RBrace >>

\* serde_json::from_str::<Value>, the scanner: whitespace is skipped, the
\* literal null is read as one token, any other letter is an error
RECURSIVE Lex(_, _, _)
Lex(text, i, acc) ==
    IF i > Len(text) THEN [ok |-> TRUE, toks |-> acc]
    ELSE IF text[i].kind = "ws" THEN Lex(text, i + 1, acc)
    ELSE IF text[i].kind = "chr"
         THEN IF i + 3 <= Len(text) /\ SubSeq(text, i, i + 3) = NullText
              THEN Lex(text, i + 4, Append(acc, ValueTok(JNull)))
              ELSE [ok |-> FALSE, toks |-> << >>]
    ELSE Lex(text, i + 1, Append(acc, text[i]))

\* serde_json::from_str::<Value>: members of an object from token i on
RECURSIVE ParseMembers(_, _, _)
ParseMembers(text, i, acc) ==
    IF i + 3 > Len(text) THEN [ok |-> FALSE, val |-> Doc("null", 0, NoFields)]
    ELSE IF ~(text[i].kind = "str" /\ text[i + 1] = Colon /\ IsValueTok(text[i + 2]))
         THEN [ok |-> FALSE, val |-> Doc("null", 0, NoFields)]
    ELSE LET name == text[i].s
             acc2 == [x \in (DOMAIN acc) \cup {name} |->
                         IF x = name THEN TokValue(text[i + 2]) ELSE acc[x]]
         IN  IF text[i + 3] = RBrace
             THEN IF i + 3 = Len(text)
                  THEN [ok |-> TRUE, val |-> Doc("obj", 0, acc2)]
                  ELSE [ok |-> FALSE, val |-> Doc("null", 0, NoFields)]
             ELSE IF text[i + 3] = Comma
                  THEN ParseMembers(text, i + 4, acc2)
                  ELSE [ok |-> FALSE, val |-> Doc("null", 0, NoFields)]

\* serde_json::from_str::<Value> on the tokens of the whole text
ParseValue(text) ==
    IF Len(text) = 0 THEN [ok |-> FALSE, val |-> Doc("null", 0, NoFields)]
    ELSE IF Len(text) = 1 /\ IsValueTok(text[1])
         THEN [ok |-> TRUE, val |-> Doc(text[1].kind, text[1].n, NoFields)]
    ELSE IF text[1] = LBrace
         THEN IF Len(text) = 2 /\ text[2] = RBrace
              THEN [ok |-> TRUE, val |-> Doc("obj", 0, NoFields)]
              ELSE ParseMembers(text, 2, NoFields)
    ELSE [ok |-> FALSE, val |-> Doc("null", 0, NoFields)]

\* serde_json::from_str::<Value> on what the scanner made of the text
ParseLexed(lx) ==
    IF lx.ok THEN ParseValue(lx.toks)
    ELSE [ok |-> FALSE, val |-> Doc("null", 0, NoFields)]

\* serde_json::from_str::<Value> (the text is scanned once: the parser
\* works on the value of the scan)
FromStr(text) ==
    CHOOSE r \in {ParseLexed(lx) : lx \in {Lex(text, 1, << >>)}} : TRUE

\* mutant of TimestampOpt: the member is looked up as captured_at
TimestampOpt_CapturedAt(doc) ==
    IF doc.kind = "obj" /\ "captured_at" \in DOMAIN doc.fields
       /\ doc.fields["captured_at"].kind = "num"
    THEN [some |-> TRUE, val |-> doc.fields["captured_at"].n]
    ELSE [some |-> FALSE, val |-> 0]

\* parsed.get("timestamp").and_then(|t| t.as_i64())
TimestampOpt(doc) ==
    IF doc.kind = "obj" /\ "timestamp" \in DOMAIN doc.fields
       /\ doc.fields["timestamp"].kind = "num"
    THEN [some |-> TRUE, val |-> doc.fields["timestamp"].n]
    ELSE [some |-> FALSE, val |-> 0]

\* ... .unwrap_or(0)
TimestampOf(doc) == IF TimestampOpt(doc).some THEN TimestampOpt(doc).val ELSE 0

\* mutant of DataOf: the member is looked up under another name
DataOf_WrongMember(doc) ==
    IF doc.kind = "obj" /\ "value" \in DOMAIN doc.fields
    THEN doc.fields["value"]
    ELSE JNull

\* parsed.get("data").cloned().unwrap_or(Value::Null)
DataOf(doc) ==
    IF doc.kind = "obj" /\ "data" \in DOMAIN doc.fields
    THEN doc.fields["data"]
    ELSE JNull

\* ------------------------------------------------------------- file names
\* get_data_file_path: data_dir.join(format!("{}.json", key))
FileName(key) == key \o <<".", "j", "s", "o", "n">>

\* a key that no caller of this run uses; an earlier run may have saved it
OtherKeys == { <<"b">> }

\* the names of the data directory
Names == {FileName(k) : k \in Keys \cup OtherKeys}

\* position of the last '.' of a file name, 0 when there is none
LastDot(name) ==
    IF \E i \in 1..Len(name) : name[i] = "."
    THEN CHOOSE i \in 1..Len(name) :
            name[i] = "." /\ \A j \in (i + 1)..Len(name) : name[j] # "."
    ELSE 0

\* std::path::Path::extension: the part after the last '.', none when the
\* name has no '.' or only a leading one
Extension(name) ==
    IF LastDot(name) <= 1
    THEN [some |-> FALSE, val |-> <<>>]
    ELSE [some |-> TRUE, val |-> SubSeq(name, LastDot(name) + 1, Len(name))]

\* std::path::Path::file_stem: the name without its extension
FileStem(name) ==
    IF LastDot(name) <= 1 THEN name ELSE SubSeq(name, 1, LastDot(name) - 1)

\* path.extension().and_then(|s| s.to_str()) == Some("json")
IsJsonFile(name) == Extension(name) = [some |-> TRUE, val |-> <<"j", "s", "o", "n">>]

\* ---------------------------------------------------------------- results
\* Result<_, String> of a command; the error string is kept as its kind
NoRes == [tag |-> "none", err |-> "", some |-> FALSE, data |-> JNull,
          source |-> "", timestamp |-> 0, info |-> {}]
\* Ok(()) and Ok(None)
OkUnit == [NoRes EXCEPT !.tag = "Ok"]
OkNone == [NoRes EXCEPT !.tag = "Ok"]
Err(kind) == [NoRes EXCEPT !.tag = "Err", !.err = kind]
\* Ok(FetchResult { data, source, timestamp })
FetchResult(data, source, timestamp) ==
    [NoRes EXCEPT !.tag = "Ok", !.some = TRUE, !.data = data,
                  !.source = source, !.timestamp = timestamp]
\* Ok(HashMap<String, i64>)
OkInfo(info) == [NoRes EXCEPT !.tag = "Ok", !.info = info]

\* NetworkStatus { is_online, can_reach_website }, with the number of GETs
\* sent to WEBSITE_URL to get it
NoNet == [is_online |-> FALSE, can_reach_website |-> FALSE, siteProbes |-> 0]

\* ------------------------------------------------------------------ state
VARIABLES
    files,   \* the data directory: file name -> [exists, text]
    now,     \* chrono::Utc::now().timestamp()
    call,    \* per task: the running command, its position and locals
    hist,    \* history of the store, for stating the properties
    ncalls   \* commands started so far

vars == <<files, now, call, hist, ncalls>>

NoFile == [exists |-> FALSE, text |-> <<>>]
File(text) == [exists |-> TRUE, text |-> text]

\* a task: op and pc the command and its position; key, data, ts the
\* locals; i the test url probed next; probed the outcome of the last GET of
\* check_internet_connectivity and got the outcome of the remote GET ("no"
\* when none was sent); saved the outcome of save_local_data;
\* detached whether the file it has open was removed; failed the files
\* whose remove_file failed in clear_local_cache(None); res the result
Idle == [op |-> "idle", pc |-> "idle", hasKey |-> FALSE, key |-> <<>>,
         data |-> JNull, ts |-> 0, i |-> 0, net |-> NoNet, probed |-> "no",
         got |-> "no", saved |-> "no", detached |-> FALSE, failed |-> {},
         res |-> NoRes]

NoPersist == [some |-> FALSE, by |-> "", data |-> JNull, ts |-> 0]
Persist(by, data, ts) == [some |-> TRUE, by |-> by, data |-> data, ts |-> ts]
NoOnline == [some |-> FALSE, data |-> JNull, saved |-> FALSE]

\* hist.persist[k]: what the last successful save of k wrote and for which
\* command ("old": in an earlier run), when the file of k held exactly that
\* after the write and has not changed since;
\* hist.wrote[k]: what the last save of k whose write succeeded wrote,
\* while the file of k has not changed since;
\* hist.online[k]: the data a fetch_data_with_fallback of k returned as
\* online, while the file of k has not changed since its return, and
\* whether its save is what the file holds;
\* hist.cleared: a clear_local_cache(None) has returned with no remove_file
\* failed, and no file has changed since

\* the data directory outlives the process: a key has no file, or the file
\* a save of an earlier run left
Init ==
    /\ now = 1
    /\ \E old \in [Keys -> {NoPersist, Persist("old", JNum(1), 1)}] :
         /\ files = [n \in Names |->
                       IF \E k \in Keys : FileName(k) = n /\ old[k].some
                       THEN LET k == CHOOSE k \in Keys : FileName(k) = n
                            IN  File(ToStringPretty(old[k].data, old[k].ts))
                       ELSE NoFile]
         /\ hist = [persist |-> old,
                    wrote |-> [k \in Keys |-> NoPersist],
                    online |-> [k \in Keys |-> NoOnline],
                    cleared |-> FALSE]
    /\ call = [p \in Procs |-> Idle]
    /\ ncalls = 0

\* the wall clock advances
Tick ==
    /\ now < MaxTime
    /\ now' = now + 1
    /\ UNCHANGED <<files, call, hist, ncalls>>

\* ------------------------------------------------------- starting a command
CanStart(p) == call[p].pc \in {"idle", "done"} /\ ncalls < MaxCalls

Begin(p, op, pc, hasKey, key, data) ==
    /\ CanStart(p)
    /\ op \in Ops(p)
    /\ call' = [call EXCEPT ![p] = [Idle EXCEPT !.op = op, !.pc = pc,
                   !.hasKey = hasKey, !.key = key, !.data = data,
                   !.i = IF pc = "probe" THEN 1 ELSE 0]]
    /\ ncalls' = ncalls + 1
    /\ UNCHANGED <<files, now, hist>>

StartStatus(p) == Begin(p, "status", "probe", FALSE, <<>>, JNull)
StartSave(p) == \E k \in Keys, v \in JsonValues : Begin(p, "save", "open", TRUE, k, v)
StartLoad(p) == \E k \in Keys : Begin(p, "load", "exists", TRUE, k, JNull)
StartFetch(p) == \E k \in Keys : Begin(p, "fetch", "probe", TRUE, k, JNull)
StartForce(p) == \E k \in Keys : Begin(p, "force", "probe", TRUE, k, JNull)
StartClear(p) == \E k \in Keys : Begin(p, "clear", "cexists", TRUE, k, JNull)
StartClearAll(p) == Begin(p, "clear", "clearall", FALSE, <<>>, JNull)
StartList(p) == Begin(p, "list", "list", FALSE, <<>>, JNull)

\* a command returns
Return(c, res) ==
    [c EXCEPT !.pc = "done", !.res = res, !.ts = 0, !.detached = FALSE]

\* the caller of an unobserved task drops the result
Settle(p, c) == IF c.pc = "done" /\ ~Observed(p) THEN Idle ELSE c

\* ------------------------------------------------------------- the history
\* a step that changes the file of a key ends what was known of the key,
\* unless the step is the save that persists it (set)
HistAfter(newFiles, set) ==
    [persist |-> [k \in Keys |->
                    IF k \in DOMAIN set THEN set[k]
                    ELSE IF newFiles[FileName(k)] # files[FileName(k)]
                         THEN NoPersist ELSE hist.persist[k]],
     wrote |-> [k \in Keys |->
                    IF newFiles[FileName(k)] # files[FileName(k)]
                    THEN NoPersist ELSE hist.wrote[k]],
     online |-> [k \in Keys |->
                    IF newFiles[FileName(k)] # files[FileName(k)]
                    THEN NoOnline ELSE hist.online[k]],
     cleared |-> hist.cleared /\ newFiles = files]

NoSet == [k \in {} |-> NoPersist]

\* ------------------------------------------------------- fetch orchestrator
\* mutant of FetchAfterStatus: the remote fetch is tried whatever the status
FetchAfterStatus_AlwaysGet(c) == [c EXCEPT !.pc = "get"]

\* fetch_data_with_fallback after check_network_status: remote fetch when the
\* website is reachable, else the local store
FetchAfterStatus(c) ==
    IF c.net.can_reach_website THEN [c EXCEPT !.pc = "get"]
    ELSE [c EXCEPT !.pc = "exists"]

\* mutant of ForceAfterStatus: unreachable, it falls back to the local store
ForceAfterStatus_Fallback(c) ==
    IF c.net.can_reach_website THEN [c EXCEPT !.pc = "get"]
    ELSE [c EXCEPT !.pc = "exists"]

\* force_refresh_data after check_network_status
ForceAfterStatus(c) ==
    IF ~c.net.can_reach_website THEN Return(c, Err("ConnectivityRequired"))
    ELSE [c EXCEPT !.pc = "get"]

\* check_network_status returns Ok(NetworkStatus), to the caller of the
\* command or to the fetch that awaits it
AfterStatus(c) ==
    IF c.op = "status" THEN Return(c, OkUnit)
    ELSE IF c.op = "fetch" THEN FetchAfterStatus(c)
    ELSE ForceAfterStatus(c)

\* ------------------------------------------------------ connectivity prober
\* a probe gets a response (of any status), or fails: no connection, a
\* timeout, or no client to send it with
ProbeOutcomes == {"response", "error"}

\* mutant of InternetVerdict: every test url is probed, the last one decides
InternetVerdict_ProbeAll(i, outcome) ==
    IF i < NumTestUrls THEN "next"
    ELSE IF outcome = "response" THEN "online" ELSE "offline"

\* check_internet_connectivity at test url i: true at the first response,
\* false after the last url
InternetVerdict(i, outcome) ==
    IF outcome = "response" THEN "online"
    ELSE IF i < NumTestUrls THEN "next" ELSE "offline"

\* mutant of OnInternetVerdict: the website is probed whatever the verdict
OnInternetVerdict_AlwaysSite(c, verdict) ==
    IF verdict = "next" THEN [c EXCEPT !.i = @ + 1]
    ELSE [c EXCEPT !.i = 0, !.net.is_online = (verdict = "online"), !.pc = "site"]

\* mutant of OnInternetVerdict: offline, the probing starts over
OnInternetVerdict_StartOver(c, verdict) ==
    IF verdict = "next" THEN [c EXCEPT !.i = @ + 1]
    ELSE IF verdict = "online"
         THEN [c EXCEPT !.i = 0, !.net.is_online = TRUE, !.pc = "site"]
    ELSE [c EXCEPT !.i = 1, !.probed = "no"]

\* check_network_status on the verdict: the website is probed only when
\* online, else can_reach_website is false
OnInternetVerdict(c, verdict) ==
    IF verdict = "next" THEN [c EXCEPT !.i = @ + 1]
    ELSE IF verdict = "online"
         THEN [c EXCEPT !.i = 0, !.net.is_online = TRUE, !.pc = "site"]
    ELSE AfterStatus([c EXCEPT !.i = 0])

\* one GET of check_internet_connectivity
ProbeInternet(p) ==
    /\ call[p].pc = "probe"
    /\ \E outcome \in ProbeOutcomes :
         call' = [call EXCEPT ![p] =
            Settle(p, OnInternetVerdict([call[p] EXCEPT !.probed = outcome],
                                        InternetVerdict(call[p].i, outcome)))]
    /\ UNCHANGED <<files, now, hist, ncalls>>

\* check_website_connectivity: the GET against WEBSITE_URL
ProbeWebsite(p) ==
    /\ call[p].pc = "site"
    /\ \E outcome \in ProbeOutcomes :
         call' = [call EXCEPT ![p] =
            Settle(p, AfterStatus([call[p] EXCEPT
                        !.net.can_reach_website = (outcome = "response"),
                        !.net.siteProbes = @ + 1]))]
    /\ UNCHANGED <<files, now, hist, ncalls>>

\* --------------------------------------------------------- remote fetch
\* fetch_online_data: the GET against url gives a 2xx response with a JSON
\* body, or fails: no client or no response (transport), a status that is
\* not 2xx, or a body that is not JSON (decode)
HttpOutcomes == {"ok", "transport", "status", "decode"}

FetchOnlineData(outcome, body) ==
    IF outcome = "ok" THEN [ok |-> TRUE, data |-> body, err |-> ""]
    ELSE [ok |-> FALSE, data |-> JNull, err |-> outcome]

\* mutant of FetchAfterGet: the error of the GET is returned
FetchAfterGet_Propagate(c, r) ==
    IF r.ok THEN [c EXCEPT !.pc = "open"] ELSE Return(c, Err(r.err))

\* mutant of FetchAfterGet: a failed GET is sent again
FetchAfterGet_Retry(c, r) ==
    IF r.ok THEN [c EXCEPT !.pc = "open"] ELSE [c EXCEPT !.pc = "get"]

\* fetch_data_with_fallback on the result of fetch_online_data
FetchAfterGet(c, r) ==
    IF r.ok THEN [c EXCEPT !.pc = "open"] ELSE [c EXCEPT !.pc = "exists"]

\* mutant of ForceAfterGet: on an error it falls back to the local store
ForceAfterGet_Fallback(c, r) ==
    IF r.ok THEN [c EXCEPT !.pc = "open"] ELSE [c EXCEPT !.pc = "exists"]

\* force_refresh_data on the result of fetch_online_data (the ? operator)
ForceAfterGet(c, r) ==
    IF r.ok THEN [c EXCEPT !.pc = "open"] ELSE Return(c, Err(r.err))

\* the remote GET of fetch_online_data
Get(p) ==
    /\ call[p].pc = "get"
    /\ \E outcome \in HttpOutcomes, body \in JsonValues :
         LET r == FetchOnlineData(outcome, body)
             c == [call[p] EXCEPT !.got = IF r.ok THEN "ok" ELSE "err", !.data = r.data]
         IN  call' = [call EXCEPT ![p] =
                Settle(p, IF c.op = "fetch" THEN FetchAfterGet(c, r)
                          ELSE ForceAfterGet(c, r))]
    /\ UNCHANGED <<files, now, hist, ncalls>>

\* ------------------------------------------------------------- local store
\* mutant of AfterSave: every caller propagates the error of the save
AfterSave_Propagate(c, ok) ==
    IF c.op = "save" THEN Return(c, IF ok THEN OkUnit ELSE Err("io"))
    ELSE IF ok THEN [c EXCEPT !.pc = "ret"] ELSE Return(c, Err("io"))

\* what the caller of save_local_data does with its result: the command
\* returns it, fetch_data_with_fallback logs an error and goes on,
\* force_refresh_data propagates an error
AfterSave(c, ok) ==
    IF c.op = "save" THEN Return(c, IF ok THEN OkUnit ELSE Err("io"))
    ELSE IF c.op = "fetch" THEN [c EXCEPT !.pc = "ret"]
    ELSE IF ok THEN [c EXCEPT !.pc = "ret"] ELSE Return(c, Err("io"))

\* save_local_data up to the open of std::fs::write: the timestamp is taken,
\* the directory is made and the file is created or truncated; a failure
\* leaves the file as it was
Open(p) ==
    /\ call[p].pc = "open"
    /\ \E ok \in BOOLEAN :
         LET name == FileName(call[p].key)
             newFiles == IF ok THEN [files EXCEPT ![name] = File(<<>>)] ELSE files
         IN  /\ files' = newFiles
             /\ hist' = HistAfter(newFiles, NoSet)
             /\ call' = [call EXCEPT ![p] = Settle(p,
                   IF ok THEN [call[p] EXCEPT !.pc = "write", !.ts = now]
                   ELSE AfterSave([call[p] EXCEPT !.saved = "failed"], FALSE))]
    /\ UNCHANGED <<now, ncalls>>

\* bytes written at offset 0 of a file that holds old
Overlay(old, written) == written \o SubSeq(old, Len(written) + 1, Len(old))

\* write_all hands the text to one write: all of it is written, or none
WriteCuts(text) == {0, Len(text)}

\* save_local_data, the write_all of std::fs::write: the whole text, or on
\* a failure none of it; a file removed since the open is written without
\* reappearing in the directory
Write(p) ==
    /\ call[p].pc = "write"
    /\ \E n \in WriteCuts(ToStringPretty(call[p].data, call[p].ts)) :
         LET c == call[p]
             name == FileName(c.key)
             text == ToStringPretty(c.data, c.ts)
             ok == n = Len(text)
             newFiles == IF c.detached THEN files
                         ELSE [files EXCEPT ![name] =
                                  File(Overlay(files[name].text, SubSeq(text, 1, n)))]
             set == IF ok /\ ~c.detached /\ newFiles[name] = File(text)
                    THEN [k \in {c.key} |-> Persist(c.op, c.data, c.ts)]
                    ELSE NoSet
         IN  /\ files' = newFiles
             /\ hist' = IF ok /\ ~c.detached
                        THEN [HistAfter(newFiles, set) EXCEPT
                                 !.wrote[c.key] = Persist(c.op, c.data, c.ts)]
                        ELSE HistAfter(newFiles, set)
             /\ call' = [call EXCEPT ![p] = Settle(p,
                   AfterSave([c EXCEPT !.saved = IF ~ok THEN "failed"
                                                 ELSE IF c.detached THEN "lost"
                                                 ELSE "ok"], ok))]
    /\ UNCHANGED <<now, ncalls>>

\* the Ok(FetchResult { source: "online", timestamp: now }) of both fetches
OnlineResult(c, t) == FetchResult(c.data, "online", t)

Ret(p) ==
    /\ call[p].pc = "ret"
    /\ call' = [call EXCEPT ![p] = Settle(p, Return(call[p], OnlineResult(call[p], now)))]
    /\ hist' = [hist EXCEPT !.online[call[p].key] =
                   [some |-> TRUE, data |-> call[p].data,
                    saved |-> /\ call[p].saved = "ok"
                              /\ hist.persist[call[p].key] =
                                    Persist("fetch", call[p].data, call[p].ts)]]
    /\ UNCHANGED <<files, now, ncalls>>

\* mutant of AfterLoad: an error of the load counts as no data
AfterLoad_ErrorIsNoData(c, r) ==
    IF c.op = "load" THEN Return(c, r)
    ELSE IF r.tag = "Ok" /\ r.some THEN Return(c, r)
    ELSE Return(c, Err("NoDataAvailable"))

\* what the caller of load_local_data does with its result: the command
\* returns it, fetch_data_with_fallback maps it
AfterLoad(c, r) ==
    IF c.op = "load" THEN Return(c, r)
    ELSE IF r.tag = "Ok" /\ r.some THEN Return(c, r)
    ELSE IF r.tag = "Ok" THEN Return(c, Err("NoDataAvailable"))
    ELSE Return(c, Err("LoadFailed"))

\* mutant of ExistsResult: a missing file is an error
ExistsResult_MissingIsError(c, file) ==
    IF ~file.exists THEN AfterLoad(c, Err("read")) ELSE [c EXCEPT !.pc = "read"]

\* load_local_data, the file_path.exists() test: Ok(None) without a file
ExistsResult(c, file) ==
    IF ~file.exists THEN AfterLoad(c, OkNone) ELSE [c EXCEPT !.pc = "read"]

Exists(p) ==
    /\ call[p].pc = "exists"
    /\ call' = [call EXCEPT ![p] =
          Settle(p, ExistsResult(call[p], files[FileName(call[p].key)]))]
    /\ UNCHANGED <<files, now, hist, ncalls>>

\* mutant of LoadLocalData: a document without both members is an error
LoadLocalData_StrictEnvelope(file) ==
    IF ~file.exists THEN Err("read")
    ELSE IF ~FromStr(file.text).ok THEN Err("corrupt")
    ELSE IF ~TimestampOpt(FromStr(file.text).val).some
            \/ "data" \notin DOMAIN FromStr(file.text).val.fields
         THEN Err("corrupt")
    ELSE FetchResult(DataOf(FromStr(file.text).val), "local",
                     TimestampOf(FromStr(file.text).val))

\* load_local_data from the result of serde_json::from_str on
LoadParsed(parsed) ==
    IF ~parsed.ok THEN Err("corrupt")
    ELSE FetchResult(DataOf(parsed.val), "local", TimestampOf(parsed.val))

\* load_local_data from read_to_string on (the content is parsed once)
LoadLocalData(file) ==
    IF ~file.exists THEN Err("read")
    ELSE CHOOSE r \in {LoadParsed(parsed) : parsed \in {FromStr(file.text)}} : TRUE

\* load_local_data run on the store as it is, with no step of another task
\* between its exists() and its read_to_string
LoadLocalDataAt(file) ==
    IF ~file.exists THEN OkNone ELSE LoadLocalData(file)

Read(p) ==
    /\ call[p].pc = "read"
    /\ call' = [call EXCEPT ![p] = Settle(p,
          AfterLoad(call[p], LoadLocalData(files[FileName(call[p].key)])))]
    /\ UNCHANGED <<files, now, hist, ncalls>>

\* --------------------------------------------------------- cache maintenance
\* a task that has the file open keeps writing to it after its removal
Detach(cl, removed) ==
    [q \in Procs |->
        IF cl[q].pc = "write" /\ FileName(cl[q].key) \in removed
        THEN [cl[q] EXCEPT !.detached = TRUE] ELSE cl[q]]

\* mutant of ClearAfterExists: a missing file is an error
ClearAfterExists_MissingIsError(c, file) ==
    IF ~file.exists THEN Return(c, Err("io")) ELSE [c EXCEPT !.pc = "remove"]

\* clear_local_cache(Some(key)) on file_path.exists(): without a file there
\* is nothing to remove and the command returns Ok(())
ClearAfterExists(c, file) ==
    IF ~file.exists THEN Return(c, OkUnit) ELSE [c EXCEPT !.pc = "remove"]

\* clear_local_cache(Some(key)), the file_path.exists() test
ClearExists(p) ==
    /\ call[p].pc = "cexists"
    /\ call' = [call EXCEPT ![p] =
          Settle(p, ClearAfterExists(call[p], files[FileName(call[p].key)]))]
    /\ UNCHANGED <<files, now, hist, ncalls>>

\* clear_local_cache(Some(key)), the remove_file; its failure is returned
Remove(p) ==
    /\ call[p].pc = "remove"
    /\ \E ok \in BOOLEAN :
         LET name == FileName(call[p].key)
             removed == ok /\ files[name].exists
             newFiles == IF removed THEN [files EXCEPT ![name] = NoFile] ELSE files
         IN  /\ files' = newFiles
             /\ hist' = HistAfter(newFiles, NoSet)
             /\ call' = Detach([call EXCEPT ![p] = Settle(p,
                   Return(call[p], IF removed THEN OkUnit ELSE Err("io")))],
                   IF removed THEN {name} ELSE {})
    /\ UNCHANGED <<now, ncalls>>

\* the entries of the data directory that the maintenance commands handle:
\* path.is_file() && extension == "json"
Managed == {n \in Names : files[n].exists /\ IsJsonFile(n)}

\* mutant of RemoveAll: the loop ends at the first remove_file that fails
RemoveAll_StopAtFailure(failed) ==
    IF failed = {} THEN [n \in Names |-> IF n \in Managed THEN NoFile ELSE files[n]]
    ELSE files

\* the loop of clear_local_cache(None) over read_dir, when remove_file fails
\* on the files of failed: the failure is logged and the loop goes on
RemoveAll(failed) ==
    [n \in Names |-> IF n \in Managed \ failed THEN NoFile ELSE files[n]]

\* clear_local_cache(None), the whole loop over read_dir and the Ok(())
ClearAll(p) ==
    /\ call[p].pc = "clearall"
    /\ \E failed \in SUBSET Managed :
         LET newFiles == RemoveAll(failed)
             removed == {n \in Names : files[n].exists /\ ~newFiles[n].exists}
         IN  /\ files' = newFiles
             /\ hist' = [HistAfter(newFiles, NoSet) EXCEPT !.cleared = failed = {}]
             /\ call' = Detach([call EXCEPT ![p] = Settle(p,
                            Return([call[p] EXCEPT !.failed = failed], OkUnit))],
                               removed)
    /\ UNCHANGED <<now, ncalls>>

\* get_cache_info: file stem -> timestamp of every managed file that reads,
\* parses and has an integer timestamp
CacheInfo ==
    {[name |-> FileStem(n), timestamp |-> TimestampOpt(FromStr(files[n].text).val).val] :
        n \in {m \in Managed : /\ FromStr(files[m].text).ok
                               /\ TimestampOpt(FromStr(files[m].text).val).some}}

List(p) ==
    /\ call[p].pc = "list"
    /\ call' = [call EXCEPT ![p] = Settle(p, Return(call[p], OkInfo(CacheInfo)))]
    /\ UNCHANGED <<files, now, hist, ncalls>>

\* ------------------------------------------------------------ specification
Next ==
    \/ Tick
    \/ \E p \in Procs :
         \/ StartStatus(p) \/ StartSave(p) \/ StartLoad(p) \/ StartFetch(p)
         \/ StartForce(p) \/ StartClear(p) \/ StartClearAll(p) \/ StartList(p)
         \/ ProbeInternet(p) \/ ProbeWebsite(p) \/ Get(p)
         \/ Open(p) \/ Write(p) \/ Ret(p)
         \/ Exists(p) \/ Read(p)
         \/ ClearExists(p) \/ Remove(p) \/ ClearAll(p) \/ List(p)

Spec == Init /\ [][Next]_vars

\* a step of a command of task p that awaits the network:
\* check_network_status, fetch_data_with_fallback, force_refresh_data
TaskStep(p) ==
    \/ ProbeInternet(p) \/ ProbeWebsite(p) \/ Get(p)
    \/ Open(p) \/ Write(p) \/ Ret(p)
    \/ Exists(p) \/ Read(p)

\* the commands that await the network, run by one caller one after the
\* other (no step of a command waits for another task)
NextLive ==
    \/ Tick
    \/ \E p \in {"t1"} :
         \/ StartStatus(p) \/ StartFetch(p) \/ StartForce(p)
         \/ TaskStep(p)

\* the runtime polls every task that is ready; a network await is ready at
\* the latest when the timeout of its client expires (3 s, 5 s, 10 s), a
\* file-system call returns
LiveSpec == Init /\ [][NextLive]_vars /\ WF_vars(TaskStep("t1"))

\* ------------------------------------------- a directory with other files
\* The data directory outlives the process and is an ordinary directory:
\* besides what save_local_data wrote it may hold what another version of
\* the program, an edit by hand or an interrupted write left there.
Member(name, v) == << StrTok(name), Colon, Ws >> \o ValueText(v)
\* { "data": d }
NoTimestampText(d) == << LBrace, Ws >> \o Member("data", d) \o << Ws, RBrace >>
\* { "data": d, "timestamp": null }
BadTimestampText(d) ==
    << LBrace, Ws >> \o Member("data", d) \o << Comma, Ws >>
    \o Member("timestamp", JNull) \o << Ws, RBrace >>
\* { "timestamp": t }
NoDataText(t) == << LBrace, Ws >> \o Member("timestamp", JNum(t)) \o << Ws, RBrace >>
\* {}
EmptyObjectText == << LBrace, RBrace >>
\* 1
ScalarText == << ValueTok(JNum(1)) >>
\* the first cells of an envelope, and no cell at all
TruncatedText == SubSeq(ToStringPretty(JNum(1), 1), 1, 6)
EmptyText == << >>

EnvelopeText == ToStringPretty(JNum(1), 1)
DirTexts ==
    { EnvelopeText, NoTimestampText(JNum(1)), BadTimestampText(JNum(1)),
      NoDataText(1), EmptyObjectText, ScalarText, TruncatedText, EmptyText }

\* what the directory may hold when the process starts: any of the texts
\* or nothing for key "a", nothing for the empty key, an entry or nothing
\* for the key of the earlier run
DirFiles ==
    { f \in [Names -> {NoFile} \cup {File(t) : t \in DirTexts}] :
        /\ f[FileName(<< >>)] = NoFile
        /\ f[FileName(<<"b">>)] \in {NoFile, File(EnvelopeText)} }

InitDir ==
    /\ now = 1
    /\ files \in DirFiles
    /\ hist = [persist |-> [k \in Keys |->
                               IF files[FileName(k)] = File(EnvelopeText)
                               THEN Persist("old", JNum(1), 1) ELSE NoPersist],
               wrote |-> [k \in Keys |-> NoPersist],
               online |-> [k \in Keys |-> NoOnline],
               cleared |-> FALSE]
    /\ call = [p \in Procs |-> Idle]
    /\ ncalls = 0

\* the commands of one caller, one after the other
NextDir ==
    \/ Tick
    \/ \E p \in {"t1"} :
         \/ StartStatus(p) \/ StartSave(p) \/ StartLoad(p) \/ StartFetch(p)
         \/ StartForce(p) \/ StartClear(p) \/ StartClearAll(p) \/ StartList(p)
         \/ ProbeInternet(p) \/ ProbeWebsite(p) \/ Get(p)
         \/ Open(p) \/ Write(p) \/ Ret(p)
         \/ Exists(p) \/ Read(p)
         \/ ClearExists(p) \/ Remove(p) \/ ClearAll(p) \/ List(p)

DirSpec == InitDir /\ [][NextDir]_vars

\* ---------------------------------------------------------------- typing
TypeOK ==
    /\ now \in 1..MaxTime
    /\ ncalls \in 0..MaxCalls
    /\ \A n \in Names : files[n].exists \in BOOLEAN
    /\ \A p \in Procs : call[p].res.tag \in {"none", "Ok", "Err"}

\* ================================================================ properties
\* task p takes a step of its command (only tasks at "write" are changed by
\* the step of another task)
Moves(p) == call'[p] # call[p]
Running(p, op) == call[p].op = op /\ call[p].pc \notin {"idle", "done"}
Done(p, op) == call[p].op = op /\ call[p].pc = "done"
FileOf(p) == files[FileName(call[p].key)]
\* the cached entry of the key of p, as the last successful save left it
EntryOf(p) == hist.persist[call[p].key]

\* C1: a fetch_data_with_fallback that found the website unreachable sends no
\* remote GET and, for a key with a cached entry, goes on to read the entry
\* and returns it with source "local" and the entry's data and timestamp.
C1_UnreachableServesCache ==
    [][\A p \in Procs :
        (Running(p, "fetch") /\ Moves(p) /\ ~call'[p].net.can_reach_website) =>
            /\ call'[p].pc # "get" /\ call'[p].got = "no"
            /\ (call[p].pc = "exists" /\ EntryOf(p).some) => call'[p].pc = "read"
            /\ (call[p].pc = "read" /\ EntryOf(p).some) =>
                  /\ call'[p].pc = "done"
                  /\ call'[p].res = FetchResult(EntryOf(p).data, "local", EntryOf(p).ts)
      ]_vars

\* C1 witness: an unreachable fetch has returned the cached entry of its key
C1_Witness ==
    \E p \in Procs :
        /\ Done(p, "fetch") /\ ~call[p].net.can_reach_website /\ call[p].got = "no"
        /\ EntryOf(p).some
        /\ call[p].res = FetchResult(EntryOf(p).data, "local", EntryOf(p).ts)

\* what a load of key k returns once fetch_data_with_fallback has returned
\* data as online for k, as long as the file of k has not changed since
LoadAfterOnline(p, must) ==
    (Running(p, "load") /\ Moves(p) /\ must) =>
        /\ call[p].pc = "exists" => call'[p].pc = "read"
        /\ call[p].pc = "read" =>
              /\ call'[p].res.tag = "Ok" /\ call'[p].res.some
              /\ call'[p].res.data = hist.online[call[p].key].data

\* a fetch whose remote GET succeeded with body v returns v as online
OnlineReturned(p) ==
    (Running(p, "fetch") /\ Moves(p) /\ call[p].got = "ok" /\ call'[p].pc = "done") =>
        /\ call'[p].res.tag = "Ok" /\ call'[p].res.some
        /\ call'[p].res.source = "online" /\ call'[p].res.data = call[p].data

\* C2 as claimed: a fetch_data_with_fallback whose remote GET succeeded with
\* body v returns v as online, and a load of the key afterwards returns v.
C2_AsClaimed ==
    [][\A p \in Procs :
        OnlineReturned(p) /\ LoadAfterOnline(p, hist.online[call[p].key].some)]_vars

\* C2 amended: ... and a load of the key afterwards returns v when the save
\* of the fetch succeeded and the file has not changed since that save.
C2_OnlineThenLoad ==
    [][\A p \in Procs :
        /\ OnlineReturned(p)
        /\ LoadAfterOnline(p, hist.online[call[p].key].some
                              /\ hist.online[call[p].key].saved)]_vars

\* C2 witness: a load has returned the data, other than the data of the
\* entries of earlier runs, that a fetch got online and saved
C2_Witness ==
    \E p \in Procs, k \in Keys :
        /\ Done(p, "load") /\ call[p].key = k
        /\ hist.online[k].some /\ hist.online[k].saved
        /\ call[p].res.some /\ call[p].res.data = hist.online[k].data
        /\ call[p].res.data # JNum(1)

\* C3: a fetch_data_with_fallback whose remote GET failed goes on to the
\* local store: it returns the cached entry of the key as local, with the
\* entry's stored timestamp, fails with NoDataAvailable when the key has no
\* file, and fails in no other way than through the load.
C3_FailedGetFallsBack ==
    /\ [][\A p \in Procs :
            (Running(p, "fetch") /\ Moves(p) /\ call'[p].got = "err") =>
                /\ call[p].pc = "get" => (call'[p].pc = "exists" /\ files' = files)
                /\ (call[p].pc = "exists" /\ EntryOf(p).some) => call'[p].pc = "read"
                /\ (call[p].pc = "exists" /\ ~FileOf(p).exists) =>
                      (call'[p].pc = "done" /\ call'[p].res = Err("NoDataAvailable"))
                /\ (call[p].pc = "read" /\ EntryOf(p).some) =>
                      /\ call'[p].pc = "done"
                      /\ call'[p].res = FetchResult(EntryOf(p).data, "local", EntryOf(p).ts)
         ]_vars
    /\ [](\A p \in Procs :
            (Done(p, "fetch") /\ call[p].res.tag = "Err") =>
                call[p].res.err \in {"NoDataAvailable", "LoadFailed"})

\* C3 witness: after a failed GET the fetch has returned an entry stamped
\* before the current second
C3_Witness ==
    \E p \in Procs :
        /\ Done(p, "fetch") /\ call[p].got = "err" /\ call[p].net.can_reach_website
        /\ call[p].res.some /\ call[p].res.source = "local"
        /\ call[p].res.timestamp = EntryOf(p).ts /\ call[p].res.timestamp < now

\* C4: a force_refresh_data that found the website unreachable fails with
\* the connectivity error, sends no remote GET and takes no step that
\* changes a file.
C4_ForceUnreachableFails ==
    /\ [][\A p \in Procs :
            (Running(p, "force") /\ Moves(p) /\ ~call'[p].net.can_reach_website) =>
                /\ files' = files
                /\ call'[p].pc \in {"probe", "site", "done"}
         ]_vars
    /\ [](\A p \in Procs :
            (Done(p, "force") /\ ~call[p].net.can_reach_website) =>
                /\ call[p].res = Err("ConnectivityRequired")
                /\ call[p].got = "no" /\ call[p].saved = "no")

\* C4 witness: the refresh has failed for a key that keeps its cached entry
C4_Witness ==
    \E p \in Procs :
        /\ Done(p, "force") /\ call[p].res = Err("ConnectivityRequired")
        /\ EntryOf(p).some

\* C5: force_refresh_data returns data as online or an error, never local
\* data; a failed GET is returned as its error with no save attempted, a
\* failed save is returned as an error, and an Ok result carries the data
\* that the save wrote (to the file of the key, or to the file a concurrent
\* clear removed while the save had it open).
C5_ForceNeverDegrades ==
    \A p \in Procs :
        Done(p, "force") =>
            /\ call[p].res.tag = "Err" \/ call[p].res.source = "online"
            /\ call[p].got = "err" =>
                  (call[p].res.tag = "Err" /\ call[p].saved = "no"
                   /\ call[p].res.err \in HttpOutcomes \ {"ok"})
            /\ call[p].saved = "failed" => call[p].res = Err("io")
            /\ call[p].res.tag = "Ok" =>
                  /\ call[p].got = "ok" /\ call[p].saved \in {"ok", "lost"}
                  /\ call[p].res.some /\ call[p].res.data = call[p].data

\* C5 witness: a refresh of a key with a cached entry has failed on its GET
C5_Witness ==
    \E p \in Procs :
        /\ Done(p, "force") /\ call[p].got = "err" /\ call[p].res.tag = "Err"
        /\ EntryOf(p).some

\* C6: a save that returns Ok, no other task having written or removed the
\* file since the save opened it, has written the file as the text of its
\* data and of the second it took from the clock, and a load of a key whose
\* last successful save wrote (v, t), the file being unchanged since,
\* returns Some with data v, source "local" and timestamp t.
C6_SaveThenLoad ==
    [][\A p \in Procs :
        /\ (Running(p, "save") /\ Moves(p) /\ ~call[p].detached
            /\ FileOf(p) = File(<< >>)
            /\ call'[p].pc = "done" /\ call'[p].res.tag = "Ok") =>
              /\ call[p].pc = "write" /\ call[p].ts \in 1..now
              /\ files'[FileName(call[p].key)] =
                    File(ToStringPretty(call[p].data, call[p].ts))
              /\ hist'.persist[call[p].key] = Persist("save", call[p].data, call[p].ts)
        /\ (Running(p, "load") /\ Moves(p) /\ EntryOf(p).some) =>
              /\ call[p].pc = "exists" => call'[p].pc = "read"
              /\ call[p].pc = "read" =>
                    /\ call'[p].pc = "done"
                    /\ call'[p].res = FetchResult(EntryOf(p).data, "local", EntryOf(p).ts)
      ]_vars

\* C6 witness: a load has returned what a save of this run wrote
C6_Witness ==
    \E p \in Procs :
        /\ Done(p, "load") /\ EntryOf(p).some /\ EntryOf(p).by = "save"
        /\ call[p].res = FetchResult(EntryOf(p).data, "local", EntryOf(p).ts)

\* C7: a load of a key that has no file returns Ok(None).
C7_LoadMissingIsNone ==
    [][\A p \in Procs :
        (Running(p, "load") /\ Moves(p) /\ call[p].pc = "exists" /\ ~FileOf(p).exists) =>
            /\ call'[p].pc = "done"
            /\ call'[p].res.tag = "Ok" /\ ~call'[p].res.some
      ]_vars

\* C7 witness: a load of a key without a file has returned Ok(None)
C7_Witness ==
    \E p \in Procs :
        Done(p, "load") /\ ~FileOf(p).exists /\ call[p].res = OkNone

\* C8: a fetch_data_with_fallback whose remote GET succeeded with body v
\* goes through the save to its return whatever the save does, and returns
\* Ok with data v and source "online".
C8_SaveFailureSwallowed ==
    /\ [][\A p \in Procs :
            (Running(p, "fetch") /\ Moves(p) /\ call[p].got = "ok") =>
                /\ call'[p].data = call[p].data
                /\ call[p].pc \in {"open", "write"} => call'[p].pc \in {"write", "ret"}
                /\ call[p].pc = "ret" =>
                      /\ call'[p].pc = "done"
                      /\ call'[p].res = FetchResult(call[p].data, "online", now)
         ]_vars
    /\ [](\A p \in Procs :
            (Done(p, "fetch") /\ call[p].got = "ok") =>
                /\ call[p].res.tag = "Ok" /\ call[p].res.some
                /\ call[p].res.source = "online" /\ call[p].res.data = call[p].data)

\* C8 witness: the fetch has returned online data that its save failed to write
C8_Witness ==
    \E p \in Procs :
        /\ Done(p, "fetch") /\ call[p].got = "ok" /\ call[p].saved = "failed"
        /\ call[p].res.tag = "Ok" /\ call[p].res.source = "online"

\* C9: check_network_status knows nothing before the internet probes are
\* over, sends no GET to the website unless they found the internet
\* reachable, so that can_reach_website implies is_online, and returns Ok.
C9_StatusShortCircuits ==
    \A p \in Procs :
        /\ call[p].pc = "probe" => call[p].net = NoNet
        /\ ~call[p].net.is_online => (call[p].net.siteProbes = 0 /\ call[p].pc # "site")
        /\ call[p].net.siteProbes <= 1
        /\ call[p].net.can_reach_website => call[p].net.is_online
        /\ Done(p, "status") => call[p].res.tag = "Ok"

\* C9 witness: a status has been returned offline, with no GET to the website
C9_Witness ==
    \E p \in Procs :
        /\ Done(p, "status") /\ ~call[p].net.is_online
        /\ ~call[p].net.can_reach_website /\ call[p].net.siteProbes = 0

\* C10 as claimed: once clear_local_cache(None) has returned (here: with
\* every remove_file succeeding) and as long as no file has changed since,
\* get_cache_info returns an empty map and a load of any key returns Ok(None).
C10_AsClaimed ==
    hist.cleared =>
        /\ CacheInfo = {}
        /\ \A k \in Keys : LoadLocalDataAt(files[FileName(k)]) = OkNone

\* C11: a load of a key whose file is an object without the timestamp
\* member, or with a timestamp that is no number, returns Some with the data
\* of the file, source "local" and timestamp 0; a load of a key whose file
\* is an object without the data member returns Some with data null and the
\* timestamp of the file. (One caller: the file is as the load read it.)
C11_SchemaDriftTolerated ==
    \A p \in Procs :
        Done(p, "load") =>
            /\ FileOf(p) = File(NoTimestampText(JNum(1))) =>
                  call[p].res = FetchResult(JNum(1), "local", 0)
            /\ FileOf(p) = File(BadTimestampText(JNum(1))) =>
                  call[p].res = FetchResult(JNum(1), "local", 0)
            /\ FileOf(p) = File(NoDataText(1)) =>
                  call[p].res = FetchResult(JNull, "local", 1)

\* C11 witness: a load has returned the data of a file whose timestamp is
\* null, with timestamp 0
C11_Witness ==
    \E p \in Procs :
        /\ Done(p, "load") /\ FileOf(p) = File(BadTimestampText(JNum(1)))
        /\ call[p].res.tag = "Ok" /\ call[p].res.some
        /\ call[p].res.data = JNum(1) /\ call[p].res.timestamp = 0

\* a fetch_data_with_fallback that returned what load_local_data gave it
FellBack(p) == Done(p, "fetch") /\ call[p].got # "ok"

\* C12 as claimed: a load of a key whose file holds something else than the
\* {data, timestamp} object (nothing, the first cells of an envelope, a
\* scalar) returns an error, and a fetch_data_with_fallback that fell back
\* to such a file fails with the load error, not with NoDataAvailable.
C12_AsClaimed ==
    \A p \in Procs :
        (FileOf(p).exists /\ FileOf(p).text \in {EmptyText, TruncatedText, ScalarText}) =>
            /\ Done(p, "load") => call[p].res.tag = "Err"
            /\ FellBack(p) => call[p].res = Err("LoadFailed")

\* C12 amended: a load of a key whose file is not JSON text (nothing, the
\* first cells of an envelope) returns the parse error, and a
\* fetch_data_with_fallback that fell back to such a file fails with the
\* load error, not with NoDataAvailable; a file that holds a JSON scalar
\* loads as Some with data null and timestamp 0.
C12_CorruptIsHardError ==
    \A p \in Procs :
        /\ (FileOf(p).exists /\ FileOf(p).text \in {EmptyText, TruncatedText}) =>
              /\ Done(p, "load") => call[p].res = Err("corrupt")
              /\ FellBack(p) => call[p].res = Err("LoadFailed")
        /\ (Done(p, "load") /\ FileOf(p) = File(ScalarText)) =>
              call[p].res = FetchResult(JNull, "local", 0)

\* C12 witness: a fetch has fallen back to a truncated file and failed with
\* the load error
C12_Witness ==
    \E p \in Procs :
        /\ FellBack(p) /\ FileOf(p) = File(TruncatedText)
        /\ call[p].res = Err("LoadFailed")

\* the keys whose file load_local_data parses
Parsing == {k \in Keys \cup OtherKeys :
              /\ files[FileName(k)].exists
              /\ LoadLocalDataAt(files[FileName(k)]).tag = "Ok"}

\* C13 as claimed: get_cache_info returns Ok with, for every key whose file
\* parses, the timestamp that a load of the key reports, and with nothing
\* else.
C13_AsClaimed ==
    [][\A p \in Procs :
        (call[p].pc = "list" /\ Moves(p)) =>
            /\ call'[p].res.tag = "Ok"
            /\ call'[p].res.info =
                  {[name |-> k,
                    timestamp |-> LoadLocalDataAt(files[FileName(k)]).timestamp] :
                      k \in Parsing}
      ]_vars

\* C14: clear_local_cache(Some(k)) changes the file of no other key; when k
\* has no file it returns Ok and changes nothing (so a second clear of k
\* does what the first left); when its remove_file succeeds the file of k is
\* gone, a load of k then returns Ok(None), and it returns Ok.
C14_ClearOneKey ==
    [][\A p \in Procs :
        (Running(p, "clear") /\ call[p].hasKey /\ Moves(p)) =>
            /\ \A k \in Keys \cup OtherKeys :
                  k # call[p].key => files'[FileName(k)] = files[FileName(k)]
            /\ call[p].pc = "cexists" =>
                  /\ files' = files
                  /\ call'[p] = Settle(p, IF FileOf(p).exists
                                          THEN [call[p] EXCEPT !.pc = "remove"]
                                          ELSE Return(call[p], OkUnit))
            /\ (call[p].pc = "remove" /\ files' # files) =>
                  /\ LoadLocalDataAt(files'[FileName(call[p].key)]) = OkNone
                  /\ call'[p] = Settle(p, Return(call[p], OkUnit))
            /\ (call[p].pc = "remove" /\ files' = files) =>
                  call'[p] = Settle(p, Return(call[p], Err("io")))
      ]_vars

\* C14 witness: a clear of a key has returned Ok, the key has no file and
\* the entry of another key is as an earlier run left it
C14_Witness ==
    \E p \in Procs, k \in Keys :
        /\ Done(p, "clear") /\ call[p].hasKey /\ call[p].res = OkUnit
        /\ ~FileOf(p).exists
        /\ k # call[p].key /\ hist.persist[k] = Persist("old", JNum(1), 1)
        /\ files[FileName(k)] = File(ToStringPretty(JNum(1), 1))

\* C15 as claimed: in every reachable state the file of a key, when there is
\* one, holds a complete envelope: it parses to an object with a data
\* member and a timestamp that is a number not below 0.
C15_AsClaimed ==
    \A k \in Keys :
        files[FileName(k)].exists =>
            /\ FromStr(files[FileName(k)].text).ok
            /\ FromStr(files[FileName(k)].text).val.kind = "obj"
            /\ "data" \in DOMAIN FromStr(files[FileName(k)].text).val.fields
            /\ TimestampOpt(FromStr(files[FileName(k)].text).val).some
            /\ TimestampOpt(FromStr(files[FileName(k)].text).val).val >= 0

\* C16 as claimed: when no save of a key is between its open and the end of
\* its write, the file of the key is the envelope that the last save whose
\* write succeeded wrote.
C16_AsClaimed ==
    \A k \in Keys :
        (/\ hist.wrote[k].some
         /\ \A p \in Procs : ~(call[p].pc = "write" /\ call[p].key = k)) =>
            files[FileName(k)] =
                File(ToStringPretty(hist.wrote[k].data, hist.wrote[k].ts))

\* C17: check_internet_connectivity probes its test urls in order, one GET
\* each: at the first response it is over with true and the next GET goes
\* to the website; after an error it probes the next url, and it is over
\* with false after an error at the last url only; the error itself goes
\* nowhere: the status command returns Ok, the fetch goes on to the local
\* store, the refresh fails with the connectivity error.
C17_ProberShortCircuits ==
    /\ [][\A p \in Procs :
            (call[p].pc = "probe" /\ Moves(p)) =>
                /\ call'[p].probed \in ProbeOutcomes
                /\ call'[p].probed = "response" =>
                      /\ call'[p].pc = "site" /\ call'[p].i = 0
                      /\ call'[p].net.is_online
                /\ (call'[p].probed = "error" /\ call[p].i < NumTestUrls) =>
                      /\ call'[p].pc = "probe" /\ call'[p].i = call[p].i + 1
                      /\ call'[p].net = NoNet
                /\ (call'[p].probed = "error" /\ call[p].i = NumTestUrls) =>
                      /\ call'[p].net = NoNet /\ call'[p].i = 0
                      /\ call[p].op = "status" =>
                            (call'[p].pc = "done" /\ call'[p].res = OkUnit)
                      /\ call[p].op = "fetch" => call'[p].pc = "exists"
                      /\ call[p].op = "force" =>
                            /\ call'[p].pc = "done"
                            /\ call'[p].res = Err("ConnectivityRequired")
         ]_vars
    /\ [](\A p \in Procs :
            /\ call[p].pc = "probe" =>
                  /\ call[p].i \in 1..NumTestUrls
                  /\ call[p].probed = (IF call[p].i = 1 THEN "no" ELSE "error")
            /\ call[p].probed = "no" => ~call[p].net.is_online
            /\ (call[p].probed # "no" /\ call[p].pc # "probe") =>
                  (call[p].net.is_online <=> call[p].probed = "response"))

\* C17 witness: a test url has responded and the website is probed next
C17_Witness ==
    \E p \in Procs :
        /\ call[p].pc = "site" /\ call[p].i = 0
        /\ call[p].probed = "response" /\ call[p].net.is_online

\* the places of a fetch in the order the code visits them
Rank(c) ==
    CASE c.pc = "probe" -> c.i
      [] c.pc = "site" -> NumTestUrls + 1
      [] c.pc = "get" -> NumTestUrls + 2
      [] c.pc = "open" -> NumTestUrls + 3
      [] c.pc = "write" -> NumTestUrls + 4
      [] c.pc = "ret" -> NumTestUrls + 5
      [] c.pc = "exists" -> NumTestUrls + 6
      [] c.pc = "read" -> NumTestUrls + 7
      [] OTHER -> NumTestUrls + 8

\* task p takes a step of its own
Steps(p) == call'[p].pc # call[p].pc \/ call'[p].i # call[p].i

\* C18: every step of a fetch_data_with_fallback or force_refresh_data takes
\* it to a later place: no test url, nor the website, nor the url is sent a
\* second GET; the outcome of the remote GET is set by the GET and by no
\* other step, so a failed GET stays failed for the call.
C18_NoRetries ==
    [][\A p \in Procs :
        (call[p].op \in {"fetch", "force"} /\ Running(p, call[p].op) /\ Steps(p)) =>
            /\ Rank(call'[p]) > Rank(call[p])
            /\ call'[p].net.siteProbes =
                  call[p].net.siteProbes + (IF call[p].pc = "site" THEN 1 ELSE 0)
            /\ call[p].pc = "get" => (call[p].got = "no" /\ call'[p].got # "no")
            /\ call[p].pc # "get" => call'[p].got = call[p].got
      ]_vars

\* C18 witness: a fetch has failed after one GET to the website and one
\* failed GET to the url
C18_Witness ==
    \E p \in Procs :
        /\ Done(p, "fetch") /\ call[p].net.siteProbes = 1 /\ call[p].got = "err"
        /\ call[p].res.tag = "Err"

\* C19: under the fair scheduling of the runtime every command that is
\* running, check_network_status, fetch_data_with_fallback and
\* force_refresh_data among them, returns a value or an error: no GET of a
\* probe or of the remote fetch stays pending.
C19_CallsComplete ==
    \A p \in Procs :
        (call[p].pc \notin {"idle", "done"}) ~> (call[p].pc \in {"idle", "done"})

\* C19 witness: a refresh has returned online data, after its probes, its
\* remote GET and its save
C19_Witness ==
    \E p \in Procs :
        /\ Done(p, "force") /\ call[p].res.tag = "Ok"
        /\ call[p].res.source = "online" /\ call[p].net.siteProbes = 1

\* C20: clear_local_cache(None) returns Ok whatever remove_file does, and
\* after it every file it handles is gone except those whose remove_file
\* failed, which are as they were; no other file changes.
C20_BulkClearBestEffort ==
    [][\A p \in Procs :
        (call[p].pc = "clearall" /\ Moves(p)) =>
            /\ Observed(p) => (call'[p].pc = "done" /\ call'[p].res = OkUnit)
            /\ Observed(p) => call'[p].failed \subseteq Managed
            /\ \E failed \in SUBSET Managed :
                  /\ Observed(p) => failed = call'[p].failed
                  /\ \A n \in Names :
                        files'[n] = IF n \in Managed \ failed THEN NoFile ELSE files[n]
      ]_vars

\* C20 witness: a bulk clear has returned Ok although the remove_file of
\* the file of "a" failed: that file is there, the other file is not
C20_Witness ==
    \E p \in Procs :
        /\ Done(p, "clear") /\ ~call[p].hasKey /\ call[p].res = OkUnit
        /\ call[p].failed = {FileName(<<"a">>)}
        /\ files[FileName(<<"a">>)].exists
        /\ ~files[FileName(<<"b">>)].exists

\* the most recent successful persist of key k, while the file of k has not
\* changed since: by a save of this run, else by an earlier run
LastPersist(k) == IF hist.wrote[k].some THEN hist.wrote[k] ELSE hist.persist[k]

\* C21 as claimed: whenever a load or a fetch_data_with_fallback returns a
\* result with source "local", its data and timestamp are those of the most
\* recent successful persist of its key, and no clear_local_cache(None) has
\* returned since that persist.
C21_AsClaimed ==
    [][\A p \in Procs :
        (/\ call[p].op \in {"load", "fetch"} /\ Moves(p)
         /\ call'[p].pc = "done" /\ call'[p].res.source = "local") =>
            /\ LastPersist(call[p].key).some
            /\ call'[p].res.data = LastPersist(call[p].key).data
            /\ call'[p].res.timestamp = LastPersist(call[p].key).ts
            /\ ~hist.cleared
      ]_vars

\* the commands that persist an entry: save_local_data and the two fetches
PersistOps == {"save", "fetch", "force"}

\* the file of key k holds what the most recent successful persist of k
\* wrote, or k has no file
Persisted(k) ==
    \/ ~files[FileName(k)].exists
    \/ /\ LastPersist(k).some
       /\ files[FileName(k)] =
             File(ToStringPretty(LastPersist(k).data, LastPersist(k).ts))

\* C22 as claimed: a step of check_network_status, load_local_data or
\* get_cache_info, and a step of a fetch that has no successful remote
\* response, changes no file; a step of a save or a fetch on key k changes
\* the file of no other key; a file disappears only in a step of
\* clear_local_cache and appears or changes otherwise only in a step of a
\* save or a fetch on its key; and a persist that ends in failure has not
\* overwritten the entry: its key has no file, or the file holds what the
\* most recent successful persist wrote.
C22_AsClaimed ==
    [][/\ \A p \in Procs :
            Steps(p) =>
                /\ call[p].op \in {"status", "load", "list"} => files' = files
                /\ (call[p].op \in {"fetch", "force"} /\ call'[p].got # "ok") =>
                      files' = files
                /\ call[p].op \in PersistOps =>
                      \A k \in Keys \cup OtherKeys :
                          k # call[p].key => files'[FileName(k)] = files[FileName(k)]
                /\ (/\ call[p].op \in PersistOps /\ call[p].saved = "no"
                    /\ call'[p].saved = "failed") => Persisted(call[p].key)'
       /\ \A n \in Names :
            /\ (files[n].exists /\ ~files'[n].exists) =>
                  \E p \in Procs : Steps(p) /\ call[p].op = "clear"
            /\ (files'[n].exists /\ files'[n] # files[n]) =>
                  \E p \in Procs : /\ Steps(p) /\ call[p].op \in PersistOps
                                   /\ FileName(call[p].key) = n
      ]_vars

====
